---- MODULE Spec2Model ----
(***************************************************************************)
(* Model of bootstrap.py: the Helios namespace bootstrap against a         *)
(* ZooKeeper store reached through a Kazoo client.                         *)
(*                                                                         *)
(* A path is the sequence of its segments (<<"helios", "a", "config">> is   *)
(* /helios/a/config).  The store is a function from the existing paths to  *)
(* their data.  Every store call of bootstrap() is one atomic step.        *)
(***************************************************************************)
EXTENDS Integers, Sequences, FiniteSets, TLC

\* ------------------------------------------------------------------ bounds
\* How many nodes the other users of the store create during a run.
MaxActorSteps == 2
\* How many store calls fail (lost connection, rejected operation) in a run.
MaxFaults == 1

\* The concurrent bootstrap invocations and the namespace ids they may get.
Procs == {"p1", "p2", "p3"}
Ids == {"a", "b"}

\* ------------------------------------------------------------------ paths
\* The node templates of bootstrap(), "%s" standing for the namespace.
Templates ==
    << <<"helios", "%s">>,
       <<"helios", "%s", "config">>,
       <<"helios", "%s", "config", "hosts">>,
       <<"helios", "%s", "config", "id">>,
       <<"helios", "%s", "status">>,
       <<"helios", "%s", "status", "hosts">> >>

\* template % namespace
Format(template, namespace) ==
    [i \in 1..Len(template) |->
        IF template[i] = "%s" THEN namespace ELSE template[i]]

\* A plausible slip: the status nodes built under the config node.
node_list_nested(namespace) ==
    [i \in 1..Len(Templates) |->
        IF i = 6 THEN Format(<<"helios", "%s", "config", "status">>, namespace)
                 ELSE Format(Templates[i], namespace)]

\* A plausible slip: the templates listed with a node before its parent.
node_list_unordered(namespace) ==
    [i \in 1..Len(Templates) |->
        Format(Templates[IF i = 2 THEN 3 ELSE IF i = 3 THEN 2 ELSE i], namespace)]

\* node_list = [template % namespace for template in (...)]
node_list(namespace) ==
    [i \in 1..Len(Templates) |-> Format(Templates[i], namespace)]

\* The root of all Helios namespaces, "/helios".
Root == <<"helios">>

Range(s) == {s[i] : i \in 1..Len(s)}

NsPaths(namespace) == Range(node_list(namespace))

Parent(path) == SubSeq(path, 1, Len(path) - 1)

\* ------------------------------------------------------------------ store
\* Data of a node made by bootstrap (Kazoo's default value, b"") and of a
\* node made by somebody else.
EmptyData == ""
ForeignData == "x"

\* A ZooKeeper tree: every node but a top-level one has its parent.
ParentClosed(S) == \A path \in S : Len(path) > 1 => Parent(path) \in S

Res(kind, path) == [kind |-> kind, path |-> path]
TrueResult == Res("True", <<>>)

\* The first index of nodes that is absent from the store, 0 when all exist.
FirstAbsent(st, nodes) ==
    IF \A i \in 1..Len(nodes) : nodes[i] \in DOMAIN st THEN 0
    ELSE CHOOSE i \in 1..Len(nodes) :
            /\ nodes[i] \notin DOMAIN st
            /\ \A j \in 1..(i - 1) : nodes[j] \in DOMAIN st

\* The result vector of a failed multi-operation: the operations before the
\* failing one are rolled back, the ones after it are not attempted.
FailedResults(n, k, err) ==
    [i \in 1..n |->
        IF i < k THEN Res("RolledBackError", <<>>)
        ELSE IF i = k THEN Res(err, <<>>)
        ELSE Res("RuntimeInconsistency", <<>>)]

\* A plausible slip: set_data(node, "") in place of check(node), which
\* answers for the same nodes but rewrites the ones it finds.
CommitSetDatas(st, nodes) ==
    LET k == FirstAbsent(st, nodes)
    IN  IF k = 0
        THEN [results |-> [i \in 1..Len(nodes) |-> TrueResult],
              tree |-> [path \in DOMAIN st |->
                          IF path \in Range(nodes) THEN EmptyData ELSE st[path]]]
        ELSE [results |-> FailedResults(Len(nodes), k, "NoNodeError"),
              tree |-> st]

\* transaction.check(node, version = -1) for each node, then commit():
\* all True when every node exists, otherwise the transaction fails at the
\* first absent node.  A check changes nothing.
CommitChecks(st, nodes) ==
    LET k == FirstAbsent(st, nodes)
    IN  IF k = 0
        THEN [results |-> [i \in 1..Len(nodes) |-> TrueResult], tree |-> st]
        ELSE [results |-> FailedResults(Len(nodes), k, "NoNodeError"),
              tree |-> st]

\* What a single create of path says against a tree: "" when it may go on.
CreateError(st, path) ==
    IF path \in DOMAIN st THEN "NodeExistsError"
    ELSE IF Len(path) > 1 /\ Parent(path) \notin DOMAIN st THEN "NoNodeError"
    ELSE ""

\* The creates of nodes[i..] applied in order to the pending tree st;
\* reject is the index of an operation the server refuses (0: none).
\* The outcome is the index of the failed operation (0: none), its error
\* and the tree reached.
RECURSIVE ApplyCreates(_, _, _, _)
ApplyCreates(st, nodes, i, reject) ==
    IF i > Len(nodes) THEN [failed |-> 0, err |-> "", tree |-> st]
    ELSE IF i = reject THEN [failed |-> i, err |-> "NoAuthError", tree |-> st]
    ELSE IF CreateError(st, nodes[i]) # ""
         THEN [failed |-> i, err |-> CreateError(st, nodes[i]), tree |-> st]
    ELSE ApplyCreates(st @@ (nodes[i] :> EmptyData), nodes, i + 1, reject)

\* A plausible slip: the nodes created one by one outside of a transaction,
\* so that the creates before a failing one stay.
CommitCreatesOneByOne(st, nodes, reject) ==
    LET r == ApplyCreates(st, nodes, 1, reject)
    IN  IF r.failed = 0
        THEN [results |-> [i \in 1..Len(nodes) |-> Res("Created", nodes[i])],
              tree |-> r.tree]
        ELSE [results |-> FailedResults(Len(nodes), r.failed, r.err),
              tree |-> r.tree]

\* transaction.create(node) for each node, then commit(): all or nothing.
CommitCreates(st, nodes, reject) ==
    LET r == ApplyCreates(st, nodes, 1, reject)
    IN  IF r.failed = 0
        THEN [results |-> [i \in 1..Len(nodes) |-> Res("Created", nodes[i])],
              tree |-> r.tree]
        ELSE [results |-> FailedResults(Len(nodes), r.failed, r.err),
              tree |-> st]

\* ------------------------------------------------- bootstrap's evaluation
\* nodes_missing = [result is not True for result in transaction.commit()]
nodes_missing(results) ==
    [i \in 1..Len(results) |-> results[i] # TrueResult]

\* A plausible slip: only the node that conflicted counts as not created.
nodes_created_conflicts(results, nodes) ==
    [i \in 1..Len(results) |-> results[i].kind # "NodeExistsError"]

\* A plausible slip: the truth value of the answer, and an exception object
\* is as true as a path.
nodes_created_truthy(results, nodes) ==
    [i \in 1..Len(results) |-> results[i].kind # ""]

\* nodes_created = [result == node_list[idx] for idx, result in enumerate(...)]
nodes_created(results, nodes) ==
    [i \in 1..Len(results) |-> results[i] = Res("Created", nodes[i])]

\* A plausible slip: the root taken for granted.
RootMissingNever(st) == FALSE

\* A plausible slip: the root created without looking.
RootMissingAlways(st) == TRUE

\* not client.exists("/helios")
RootMissing(st) == Root \notin DOMAIN st

\* all(flags)
All(flags) == \A i \in 1..Len(flags) : flags[i]

RECURSIVE SelectIdx(_, _, _)
SelectIdx(nodes, flags, i) ==
    IF i > Len(nodes) THEN <<>>
    ELSE (IF flags[i] THEN <<>> ELSE <<nodes[i]>>) \o SelectIdx(nodes, flags, i + 1)

\* node_list[idx] for idx, flag in enumerate(flags) if not flag
NotFlagged(nodes, flags) == SelectIdx(nodes, flags, 1)

\* An exception of a store call is caught nowhere in bootstrap(): it ends
\* the invocation.
AfterErrorRetry(position) == position

AfterError(position) == "done"

\* ------------------------------------------------------------------ state
VARIABLES
    store,       \* the ZooKeeper tree: existing path -> data
    ns,          \* ns[p]: the namespace argument of invocation p
    pc,          \* pc[p]: the store call invocation p issues next, or "done"
    result,      \* result[p]: how invocation p ended ("none" while running)
    reported,    \* reported[p]: the node list of p's error message
    calls,       \* calls[p]: the store calls p has issued, in order
    touched,     \* touched[p]: the paths whose node a call of p changed
    pre,         \* pre[p]: the tree when p issued its first call
    store0,      \* the tree at the beginning
    committed,   \* committed[p]: p's create transaction was applied
    lostEffect,  \* lostEffect[p]: the paths changed by p's call that raised
    raced,       \* raced[p]: somebody made p's config node after p's check
    overlap,     \* two invocations have been running at the same time
    actorSteps,  \* nodes created by the other users of the store
    faults,      \* store calls that failed
    batch,       \* batch[p]: the node lists of the transactions p committed
    client,      \* client[p]: the Kazoo client of process p
    exitCode     \* exitCode[p]: the exit status of process p, -1 while it runs

vars == <<store, ns, pc, result, reported, calls, touched, pre, store0,
          committed, lostEffect, raced, overlap, actorSteps, faults,
          batch, client, exitCode>>

EmptyTree == [path \in {} |-> EmptyData]

Tree(S) == [path \in S |-> ForeignData]

\* The paths on which two trees differ.
Diff(s, t) ==
    {path \in (DOMAIN s) \cup (DOMAIN t) :
        \/ path \notin DOMAIN s
        \/ path \notin DOMAIN t
        \/ s[path] # t[path]}

\* The paths that matter to the invocations: the root and their namespaces.
Used == {Root} \cup UNION {NsPaths(ns[p]) : p \in Procs}

\* The namespace ids are interchangeable: the first invocation's is fixed.
InitRest ==
    /\ ns \in {f \in [Procs -> Ids] : f["p1"] = "a"}
    /\ pc = [p \in Procs |-> "check"]
    /\ result = [p \in Procs |-> "none"]
    /\ reported = [p \in Procs |-> <<>>]
    /\ calls = [p \in Procs |-> <<>>]
    /\ touched = [p \in Procs |-> {}]
    /\ pre = [p \in Procs |-> EmptyTree]
    /\ committed = [p \in Procs |-> FALSE]
    /\ lostEffect = [p \in Procs |-> {}]
    /\ raced = [p \in Procs |-> FALSE]
    /\ overlap = FALSE
    /\ actorSteps = 0
    /\ faults = 0
    /\ batch = [p \in Procs |-> <<>>]
    /\ client = [p \in Procs |-> "started"]
    /\ exitCode = [p \in Procs |-> -1]

\* Any tree other users may have left in the store.
Init ==
    /\ InitRest
    /\ store \in {Tree(S) : S \in {T \in SUBSET Used : ParentClosed(T)}}
    /\ store0 = store

\* A store in which every namespace is complete or absent.
InitBoot ==
    /\ InitRest
    /\ store \in {Tree(S) : S \in {T \in SUBSET Used :
            /\ ParentClosed(T)
            /\ \A id \in Ids : NsPaths(id) \cap T \in {{}, NsPaths(id)}}}
    /\ store0 = store

Faulty(f) == f # "none"

\* The bookkeeping common to every store call of invocation p.
Issue(p, call, f, tree) ==
    /\ Faulty(f) => faults < MaxFaults
    /\ faults' = IF Faulty(f) THEN faults + 1 ELSE faults
    /\ calls' = [calls EXCEPT ![p] = Append(@, call)]
    /\ store' = tree
    /\ touched' = [touched EXCEPT ![p] = @ \cup Diff(store, tree)]
    /\ lostEffect' = IF f \in {"lost", "late"}
                     THEN [lostEffect EXCEPT ![p] = Diff(store, tree)]
                     ELSE lostEffect
    /\ UNCHANGED <<ns, store0, raced, actorSteps, client, exitCode>>

\* Lines 88-104: the check transaction and its evaluation.
Phase1(p, f) ==
    /\ pc[p] = "check"
    /\ LET nodes == node_list(ns[p])
           r == CommitChecks(store, nodes)
           missing == nodes_missing(r.results)
       IN  /\ Issue(p, "check_txn", f, r.tree)
           /\ IF f = "lost"
              THEN /\ pc' = [pc EXCEPT ![p] = AfterError(@)]
                   /\ result' = [result EXCEPT ![p] = "StoreError"]
                   /\ UNCHANGED reported
              ELSE IF ~All(missing)
              THEN /\ pc' = [pc EXCEPT ![p] = "done"]
                   /\ result' = [result EXCEPT ![p] = "NamespaceCollision"]
                   /\ reported' = [reported EXCEPT ![p] = NotFlagged(nodes, missing)]
              ELSE /\ pc' = [pc EXCEPT ![p] = "exists"]
                   /\ UNCHANGED <<result, reported>>
    /\ pre' = [pre EXCEPT ![p] = store]
    /\ batch' = [batch EXCEPT ![p] = Append(@, node_list(ns[p]))]
    /\ overlap' = (overlap \/ \E q \in Procs \ {p} :
                                pc[q] \notin {"start", "check", "done", "exited"})
    /\ UNCHANGED committed

\* Line 106: client.exists("/helios").
ExistsRoot(p, f) ==
    /\ pc[p] = "exists"
    /\ Issue(p, "exists", f, store)
    /\ IF f = "lost"
       THEN /\ pc' = [pc EXCEPT ![p] = AfterError(@)]
            /\ result' = [result EXCEPT ![p] = "StoreError"]
       ELSE /\ pc' = [pc EXCEPT ![p] = IF RootMissing(store) THEN "create" ELSE "commit"]
            /\ UNCHANGED result
    /\ UNCHANGED <<reported, pre, committed, overlap, batch>>

\* Line 109: client.create("/helios").  "late": the server applied the call
\* and the connection was lost before the answer.
CreateRoot(p, f) ==
    /\ pc[p] = "create"
    /\ LET err == CreateError(store, Root)
           made == IF err = "" /\ f # "lost"
                   THEN store @@ (Root :> EmptyData) ELSE store
       IN  /\ Issue(p, "create", f, made)
           /\ IF Faulty(f)
              THEN /\ pc' = [pc EXCEPT ![p] = AfterError(@)]
                   /\ result' = [result EXCEPT ![p] = "StoreError"]
              ELSE IF err # ""
              THEN /\ pc' = [pc EXCEPT ![p] = AfterError(@)]
                   /\ result' = [result EXCEPT ![p] = err]
              ELSE /\ pc' = [pc EXCEPT ![p] = "commit"]
                   /\ UNCHANGED result
    /\ UNCHANGED <<reported, pre, committed, overlap, batch>>

\* Lines 111-128: the create transaction and its evaluation.  "reject": the
\* server refuses operation number reject of the batch.
Phase3(p, f, reject) ==
    /\ pc[p] = "commit"
    /\ LET nodes == node_list(ns[p])
           r == CommitCreates(store, nodes, IF f = "reject" THEN reject ELSE 0)
           created == nodes_created(r.results, nodes)
           tree == IF f = "lost" THEN store ELSE r.tree
       IN  /\ Issue(p, "create_txn", f, tree)
           /\ committed' = [committed EXCEPT ![p] = (tree # store)]
           /\ IF f \in {"lost", "late"}
              THEN /\ pc' = [pc EXCEPT ![p] = AfterError(@)]
                   /\ result' = [result EXCEPT ![p] = "StoreError"]
                   /\ UNCHANGED reported
              ELSE IF ~All(created)
              THEN /\ pc' = [pc EXCEPT ![p] = "done"]
                   /\ result' = [result EXCEPT ![p] = "CreationRace"]
                   /\ reported' = [reported EXCEPT ![p] = NotFlagged(nodes, created)]
              ELSE /\ pc' = [pc EXCEPT ![p] = "done"]
                   /\ result' = [result EXCEPT ![p] = "Success"]
                   /\ UNCHANGED reported
    /\ batch' = [batch EXCEPT ![p] = Append(@, node_list(ns[p]))]
    /\ UNCHANGED <<pre, overlap>>

\* Another user of the store creates a node.
ActorCreate(path) ==
    /\ actorSteps < MaxActorSteps
    /\ CreateError(store, path) = ""
    /\ store' = store @@ (path :> ForeignData)
    /\ actorSteps' = actorSteps + 1
    /\ raced' = [p \in Procs |->
                    \/ raced[p]
                    \/ /\ path = node_list(ns[p])[2]
                       /\ pc[p] \in {"exists", "create", "commit"}]
    /\ UNCHANGED <<ns, pc, result, reported, calls, touched, pre, store0,
                   committed, lostEffect, overlap, faults, batch, client,
                   exitCode>>

\* Bootstrap invocations on a store that other users have left in any state
\* and that may refuse an operation of a create transaction.
Next ==
    \/ \E p \in Procs : Phase1(p, "none")
    \/ \E p \in Procs : ExistsRoot(p, "none")
    \/ \E p \in Procs : CreateRoot(p, "none")
    \/ \E p \in Procs : Phase3(p, "none", 0)
    \/ \E p \in Procs : \E k \in 1..Len(Templates) : Phase3(p, "reject", k)

Spec == Init /\ [][Next]_vars

\* Bootstrap invocations while other users create nodes in the store.  The
\* ids being interchangeable, the other users work on /helios and on the
\* namespace of the first invocation.
NextRace ==
    \/ \E p \in Procs : Phase1(p, "none")
    \/ \E p \in Procs : ExistsRoot(p, "none")
    \/ \E p \in Procs : CreateRoot(p, "none")
    \/ \E p \in Procs : Phase3(p, "none", 0)
    \/ \E path \in {Root} \cup NsPaths(ns["p1"]) : ActorCreate(path)

SpecRace == InitBoot /\ [][NextRace]_vars

\* Bootstrap invocations alone on a reliable store.
NextBoot ==
    \/ \E p \in Procs : Phase1(p, "none")
    \/ \E p \in Procs : ExistsRoot(p, "none")
    \/ \E p \in Procs : CreateRoot(p, "none")
    \/ \E p \in Procs : Phase3(p, "none", 0)

SpecBoot == InitBoot /\ [][NextBoot]_vars

\* Bootstrap invocations alone on a store whose calls may raise ("lost"
\* before the server applied the call, "late" after it did) and which may
\* refuse an operation of a create transaction.
NextFaulty ==
    \/ \E p \in Procs : \E f \in {"none", "lost"} : Phase1(p, f)
    \/ \E p \in Procs : \E f \in {"none", "lost"} : ExistsRoot(p, f)
    \/ \E p \in Procs : \E f \in {"none", "lost", "late"} : CreateRoot(p, f)
    \/ \E p \in Procs : \E f \in {"none", "lost", "late"} : Phase3(p, f, 0)
    \/ \E p \in Procs : \E k \in 1..Len(Templates) : Phase3(p, "reject", k)

SpecFaulty == InitBoot /\ [][NextFaulty]_vars

\* ------------------------------------------------------------------- main
\* What bootstrap() hands back: 1 at lines 104 and 126, nothing (None) when
\* it runs off its end at line 128.
ReturnValue(outcome) == IF outcome = "Success" THEN "None" ELSE "1"

\* A plausible slip: the status of bootstrap() dropped on the way out.
ExitStatusDropped(status) == 0

\* exit(main()): None is a clean exit, a number is the exit status.
ExitStatus(status) == IF status = "None" THEN 0 ELSE 1

\* How invocation p ended by returning, not by raising.
Returned(p) == result[p] \in {"Success", "NamespaceCollision", "CreationRace"}

Raised(p) == result[p] \in {"NodeExistsError", "StoreError"}

MainFrame ==
    UNCHANGED <<store, ns, reported, calls, touched, pre, store0, committed,
                lostEffect, raced, overlap, actorSteps, batch>>

\* Lines 63-69: client.start(timeout = ...); a TimeoutError ends main with 1.
StartClient(p, timedOut) ==
    /\ pc[p] = "start"
    /\ timedOut => faults < MaxFaults
    /\ faults' = IF timedOut THEN faults + 1 ELSE faults
    /\ IF timedOut
       THEN /\ pc' = [pc EXCEPT ![p] = "exited"]
            /\ result' = [result EXCEPT ![p] = "ConnectionTimeout"]
            /\ exitCode' = [exitCode EXCEPT ![p] = ExitStatus("1")]
            /\ UNCHANGED client
       ELSE /\ pc' = [pc EXCEPT ![p] = "check"]
            /\ client' = [client EXCEPT ![p] = "started"]
            /\ UNCHANGED <<result, exitCode>>
    /\ MainFrame

\* Lines 71-76: bootstrap() has returned; client.stop() and the status out.
StopClient(p) ==
    /\ pc[p] = "done"
    /\ Returned(p)
    /\ client' = [client EXCEPT ![p] = "stopped"]
    /\ exitCode' = [exitCode EXCEPT ![p] = ExitStatus(ReturnValue(result[p]))]
    /\ pc' = [pc EXCEPT ![p] = "exited"]
    /\ UNCHANGED <<result, faults>>
    /\ MainFrame

\* Line 71: an exception of bootstrap() is caught neither there nor in
\* main(): it passes line 74 by and ends the interpreter with status 1.
Propagate(p) ==
    /\ pc[p] = "done"
    /\ Raised(p)
    /\ exitCode' = [exitCode EXCEPT ![p] = 1]
    /\ pc' = [pc EXCEPT ![p] = "exited"]
    /\ UNCHANGED <<result, faults, client>>
    /\ MainFrame

\* Processes about to run main() on a store in which every namespace is
\* complete or absent.
InitMain ==
    /\ ns \in {f \in [Procs -> Ids] : f["p1"] = "a"}
    /\ pc = [p \in Procs |-> "start"]
    /\ result = [p \in Procs |-> "none"]
    /\ reported = [p \in Procs |-> <<>>]
    /\ calls = [p \in Procs |-> <<>>]
    /\ touched = [p \in Procs |-> {}]
    /\ pre = [p \in Procs |-> EmptyTree]
    /\ committed = [p \in Procs |-> FALSE]
    /\ lostEffect = [p \in Procs |-> {}]
    /\ raced = [p \in Procs |-> FALSE]
    /\ overlap = FALSE
    /\ actorSteps = 0
    /\ faults = 0
    /\ batch = [p \in Procs |-> <<>>]
    /\ client = [p \in Procs |-> "new"]
    /\ exitCode = [p \in Procs |-> -1]
    /\ store \in {Tree(S) : S \in {T \in SUBSET Used :
            /\ ParentClosed(T)
            /\ \A id \in Ids : NsPaths(id) \cap T \in {{}, NsPaths(id)}}}
    /\ store0 = store

\* Whole processes: main() around bootstrap(), on a store whose calls may
\* raise.
NextMain ==
    \/ \E p \in Procs : \E timedOut \in BOOLEAN : StartClient(p, timedOut)
    \/ \E p \in Procs : \E f \in {"none", "lost"} : Phase1(p, f)
    \/ \E p \in Procs : \E f \in {"none", "lost"} : ExistsRoot(p, f)
    \/ \E p \in Procs : \E f \in {"none", "lost", "late"} : CreateRoot(p, f)
    \/ \E p \in Procs : \E f \in {"none", "lost", "late"} : Phase3(p, f, 0)
    \/ \E p \in Procs : StopClient(p)
    \/ \E p \in Procs : Propagate(p)

SpecMain == InitMain /\ [][NextMain]_vars

\* Every call of the store answers or raises, so an invocation that has a
\* call to issue issues it.
SpecBootFair == SpecBoot /\ WF_vars(NextBoot)

TypeOK ==
    /\ ParentClosed(DOMAIN store)
    /\ \A p \in Procs :
          pc[p] \in {"start", "check", "exists", "create", "commit", "done", "exited"}

\* ----------------------------------------------------------------- claims
\* The six namespace-scoped paths of id, as the path layout writes them.
Skeleton(id) ==
    { <<"helios", id>>,
      <<"helios", id, "config">>,
      <<"helios", id, "config", "hosts">>,
      <<"helios", id, "config", "id">>,
      <<"helios", id, "status">>,
      <<"helios", id, "status", "hosts">> }

Existing == DOMAIN store

Called(p, call) == call \in Range(calls[p])

Failed(p) == result[p] \in {"NamespaceCollision", "CreationRace"}

\* C1: an invocation that ended in Failure, at the check transaction or at
\* the create transaction, has changed no namespace-scoped path of its id,
\* and every such path that exists was there before its first call or was
\* made by somebody else.
C1_FailureCreatesNothing ==
    \A p \in Procs :
        Failed(p) => /\ touched[p] \cap Skeleton(ns[p]) = {}
                     /\ (\A q \in Procs \ {p} : ~committed[q])
                            => Skeleton(ns[p]) \cap Existing
                                 = Skeleton(ns[p]) \cap DOMAIN pre[p]

\* C1 witness: a create transaction that passed the check and was refused
\* at an operation after the first one.
C1_Witness ==
    \E p \in Procs :
        /\ result[p] = "CreationRace"
        /\ faults = 1
        /\ Skeleton(ns[p]) \cap DOMAIN pre[p] = {}
        /\ reported[p] = node_list(ns[p])

\* The pre-existing paths of p's namespace, in the order of the batch.
RECURSIVE PreExisting(_, _, _)
PreExisting(nodes, tree, i) ==
    IF i > Len(nodes) THEN <<>>
    ELSE (IF nodes[i] \in DOMAIN tree THEN <<nodes[i]>> ELSE <<>>)
             \o PreExisting(nodes, tree, i + 1)

\* C2: an invocation whose namespace held at least one of the six paths at
\* its check transaction ends there with NamespaceCollision, reports exactly
\* the paths that existed and never submits the create transaction.
C2_AnyExistingPathCollides ==
    \A p \in Procs :
        (calls[p] # <<>> /\ Skeleton(ns[p]) \cap DOMAIN pre[p] # {})
            => /\ result[p] = "NamespaceCollision"
               /\ reported[p] = PreExisting(node_list(ns[p]), pre[p], 1)
               /\ ~Called(p, "create_txn")

Started(p) == calls[p] # <<>>

\* The invocations that have started have pairwise different ids.
DistinctIds == \A p, q \in Procs : (Started(p) /\ Started(q) /\ p # q) => ns[p] # ns[q]

\* C3: invocations with pairwise different ids, none of which is in the
\* store at the beginning, all end with Success and their six paths made.
C3_DifferentIdsAllSucceed ==
    DistinctIds =>
        \A p \in Procs :
            (pc[p] = "done" /\ Skeleton(ns[p]) \cap DOMAIN store0 = {})
                => /\ result[p] = "Success"
                   /\ Skeleton(ns[p]) \subseteq Existing

\* C4 as stated: of two invocations with the same id, at most one passes the
\* check and submits the create transaction.
C4_AtMostOnePassesCheck ==
    \A p, q \in Procs :
        (p # q /\ ns[p] = ns[q])
            => ~(Called(p, "create_txn") /\ Called(q, "create_txn"))

\* C4 as amended: of two invocations with the same id both may pass the
\* check and submit the create transaction, but the create transaction of at
\* most one is applied and at most one ends with Success; the other has
\* changed none of the six paths.
C4_AtMostOneCreates ==
    \A p, q \in Procs :
        (p # q /\ ns[p] = ns[q])
            => /\ ~(committed[p] /\ committed[q])
               /\ ~(result[p] = "Success" /\ result[q] = "Success")
               /\ (result[p] = "Success" /\ pc[q] = "done")
                    => touched[q] \cap Skeleton(ns[q]) = {}

\* C4 witness: both submitted the create transaction, one won.
C4_Witness ==
    \E p, q \in Procs :
        /\ p # q /\ ns[p] = ns[q]
        /\ Called(p, "create_txn") /\ Called(q, "create_txn")
        /\ result[p] = "Success"
        /\ result[q] = "CreationRace"

\* C5: every namespace id has none or all six of its paths in the store.
C5_NamespaceAllOrNothing ==
    \A id \in Ids : Skeleton(id) \cap Existing \in {{}, Skeleton(id)}

\* C5 witness: a namespace that an invocation made while another
\* invocation on the same store was refused an operation.
C5_Witness ==
    \E p, q \in Procs :
        /\ committed[p]
        /\ Skeleton(ns[p]) \cap DOMAIN store0 = {}
        /\ Skeleton(ns[p]) \subseteq Existing
        /\ result[q] = "CreationRace"
        /\ faults = 1

ConfigPath(id) == <<"helios", id, "config">>

\* The create transaction of p has answered after p's check found none of
\* the six paths and somebody made p's config node between that check and
\* the create transaction.
RacedAndAnswered(p) ==
    /\ Skeleton(ns[p]) \cap DOMAIN pre[p] = {}
    /\ raced[p]
    /\ Called(p, "create_txn")
    /\ pc[p] = "done"

\* C6 as stated: the failure reports the config path alone.
C6_ReportsConflictingPath ==
    \A p \in Procs :
        RacedAndAnswered(p)
            => /\ result[p] = "CreationRace"
               /\ reported[p] = <<ConfigPath(ns[p])>>
               /\ touched[p] \cap Skeleton(ns[p]) = {}

\* C6 as amended: the failure reports all six paths of the batch, in the
\* order of the batch, and the invocation has made none of them.
C6_ReportsWholeBatch ==
    \A p \in Procs :
        RacedAndAnswered(p)
            => /\ result[p] = "CreationRace"
               /\ Range(reported[p]) = Skeleton(ns[p])
               /\ reported[p] = node_list(ns[p])
               /\ touched[p] \cap Skeleton(ns[p]) = {}

\* C6 witness: the race happened and the create transaction answered.
C6_Witness ==
    \E p \in Procs : RacedAndAnswered(p) /\ ConfigPath(ns[p]) \in Existing

Alone(p) == \A q \in Procs \ {p} : calls[q] = <<>>

\* C7: from an empty store, an invocation running alone ends with Success
\* and leaves exactly /helios and its six paths, each with empty data.
C7_HappyPath ==
    \A p \in Procs :
        (store0 = EmptyTree /\ Alone(p) /\ pc[p] = "done")
            => /\ result[p] = "Success"
               /\ store = [path \in {Root} \cup Skeleton(ns[p]) |-> EmptyData]

\* C7 witness: such a run has ended.
C7_Witness ==
    \E p \in Procs : store0 = EmptyTree /\ Alone(p) /\ pc[p] = "done"

\* p and then q have run one after the other, with different ids, from an
\* empty store, and nobody else has.
TwoRuns(p, q) ==
    /\ store0 = EmptyTree
    /\ p # q /\ ns[p] # ns[q]
    /\ pc[p] = "done" /\ pc[q] = "done"
    /\ \A r \in Procs \ {p, q} : ~Started(r)
    /\ ~overlap
    /\ pre[p] = EmptyTree /\ pre[q] # EmptyTree

\* C8: both runs end with Success; the second one finds /helios and does
\* not create it, and changes only its own six paths, leaving the first
\* one's as they were; the store ends as one /helios node over the two
\* complete namespaces.
C8_RootIdempotence ==
    \A p, q \in Procs :
        TwoRuns(p, q) =>
            /\ result[p] = "Success" /\ result[q] = "Success"
            /\ calls[p] = <<"check_txn", "exists", "create", "create_txn">>
            /\ calls[q] = <<"check_txn", "exists", "create_txn">>
            /\ touched[q] = Skeleton(ns[q])
            /\ Skeleton(ns[p]) \subseteq DOMAIN pre[q]
            /\ \A path \in Skeleton(ns[p]) : store[path] = pre[q][path]
            /\ store = [path \in {Root} \cup Skeleton(ns[p]) \cup Skeleton(ns[q])
                            |-> EmptyData]

\* C8 witness: two such runs have ended.
C8_Witness == \E p, q \in Procs : TwoRuns(p, q)

\* C9: an invocation that ended with NamespaceCollision has issued the check
\* transaction and nothing else and has changed no path; when nobody else
\* has acted the store is the one of the beginning.
C9_CollisionMutatesNothing ==
    \A p \in Procs :
        result[p] = "NamespaceCollision"
            => /\ calls[p] = <<"check_txn">>
               /\ touched[p] = {}
               /\ Alone(p) => store = store0

\* C9 witness: a collision.
C9_Witness ==
    \E p \in Procs :
        /\ result[p] = "NamespaceCollision"
        /\ Skeleton(ns[p]) \subseteq DOMAIN pre[p]

\* The store calls of an invocation, in program order.
CallOrder == <<"check_txn", "exists", "create", "create_txn">>

\* calls is what an invocation issues when it issues nothing twice.
NoRetry(cs) ==
    /\ \A i, j \in 1..Len(cs) : i # j => cs[i] # cs[j]
    /\ \A i, j \in 1..Len(cs) :
          i < j => \E a, b \in 1..Len(CallOrder) :
                      a < b /\ CallOrder[a] = cs[i] /\ CallOrder[b] = cs[j]

\* C10 as stated: an invocation one of whose store calls raised has ended,
\* has issued nothing twice, and the call that raised changed nothing.
C10_FailedCallLeavesNothing ==
    \A p \in Procs :
        result[p] = "StoreError"
            => /\ pc[p] = "done"
               /\ NoRetry(calls[p])
               /\ lostEffect[p] = {}

\* C10 as amended: an invocation one of whose store calls raised has ended
\* and has issued nothing twice; a check transaction or an existence check
\* that raised changed nothing, while a create of /helios or a create
\* transaction that raised was applied by the server whole or not at all.
C10_FailedCallAllOrNothing ==
    \A p \in Procs :
        result[p] = "StoreError"
            => /\ pc[p] = "done"
               /\ NoRetry(calls[p])
               /\ calls[p][Len(calls[p])] \in {"check_txn", "exists"}
                     => lostEffect[p] = {}
               /\ calls[p][Len(calls[p])] = "create"
                     => lostEffect[p] \in {{}, {Root}}
               /\ calls[p][Len(calls[p])] = "create_txn"
                     => lostEffect[p] \in {{}, Skeleton(ns[p])}

\* C10 witness: a create transaction that the server applied and whose
\* answer was lost.
C10_Witness ==
    \E p \in Procs :
        /\ result[p] = "StoreError"
        /\ lostEffect[p] = Skeleton(ns[p])

Exited(p) == pc[p] = "exited"

\* C11: a process that has ended has exit status 0 exactly when bootstrap
\* returned Success, and 1 after a collision, a failed create transaction
\* or a connection timeout; after a connection timeout bootstrap was not
\* called: the process has issued no store call and changed no path.
C11_ExitCode ==
    \A p \in Procs :
        Exited(p)
            => /\ exitCode[p] = 0 <=> result[p] = "Success"
               /\ result[p] \in {"NamespaceCollision", "CreationRace",
                                 "ConnectionTimeout"} => exitCode[p] = 1
               /\ result[p] = "ConnectionTimeout"
                     => /\ calls[p] = <<>>
                        /\ batch[p] = <<>>
                        /\ touched[p] = {}
                        /\ client[p] # "stopped"

\* C11 witness: processes have ended in success, in a collision and in a
\* connection timeout.
C11_Witness ==
    \E p, q, r \in Procs :
        /\ Exited(p) /\ result[p] = "Success" /\ exitCode[p] = 0
        /\ Exited(q) /\ result[q] = "NamespaceCollision" /\ exitCode[q] = 1
        /\ Exited(r) /\ result[r] = "ConnectionTimeout" /\ exitCode[r] = 1

\* The store calls of p before its create transaction.
BeforeCreateTxn(p) ==
    IF Called(p, "create_txn") THEN SubSeq(calls[p], 1, Len(calls[p]) - 1)
    ELSE calls[p]

\* C12: an invocation that is about to submit, or has submitted, the create
\* transaction has committed the check transaction first and found no node
\* in its answer, and has then looked for /helios and created it when it was
\* absent; /helios exists when the create transaction is submitted, and so
\* wherever a path made by bootstrap exists.
C12_CheckThenRootThenCreate ==
    \A p \in Procs :
        /\ (pc[p] = "commit" \/ Called(p, "create_txn"))
              => /\ BeforeCreateTxn(p) \in {<<"check_txn", "exists">>,
                                            <<"check_txn", "exists", "create">>}
                 /\ All(nodes_missing(CommitChecks(pre[p], batch[p][1]).results))
                 /\ ~(Skeleton(ns[p]) \subseteq DOMAIN pre[p])
                 /\ Root \in DOMAIN pre[p] => ~Called(p, "create")
                 /\ pc[p] = "commit" => Root \in Existing
        /\ \A path \in Skeleton(ns[p]) \cap Existing :
              store[path] = EmptyData => Root \in Existing

\* C12 witness: an invocation that created /helios and then its namespace.
C12_Witness ==
    \E p \in Procs :
        /\ Called(p, "create")
        /\ committed[p]
        /\ Root \notin DOMAIN pre[p]
        /\ Skeleton(ns[p]) \subseteq Existing

\* The ways an invocation ends: by returning (Success, or a failure with
\* its node list) or by an exception of a store call.
Outcomes == {"Success", "NamespaceCollision", "CreationRace",
             "NodeExistsError", "StoreError"}

\* Invocation p has an outcome exactly when it has ended, and has issued
\* every store call at most once, in program order.
OnePass(p) ==
    /\ NoRetry(calls[p])
    /\ Len(calls[p]) <= Len(CallOrder)
    /\ result[p] # "none" <=> pc[p] = "done"
    /\ result[p] # "none" => result[p] \in Outcomes

\* C13: under every interleaving each invocation issues the check
\* transaction, the existence check, the create of /helios and the create
\* transaction at most once each and in that order; once it has an outcome
\* it issues nothing more and the outcome stays; and every invocation
\* eventually ends with an outcome.
C13_TerminatesWithoutRetry ==
    /\ [](\A p \in Procs : OnePass(p))
    /\ [][\A p \in Procs : result[p] # "none"
              => (result'[p] = result[p] /\ calls'[p] = calls[p])]_vars
    /\ <>(\A p \in Procs : pc[p] = "done" /\ result[p] \in Outcomes)

\* C13 witness: all invocations have ended, one when its create of /helios
\* raised, one after all four store calls.
C13_Witness ==
    /\ \A p \in Procs : pc[p] = "done"
    /\ \E p, q \in Procs :
          /\ result[p] = "NodeExistsError"
          /\ calls[q] = CallOrder

\* The ways an invocation ends without Success: a returned Failure, or the
\* create of /helios raising.
Failures == {"NamespaceCollision", "CreationRace", "NodeExistsError"}

\* C14: among the invocations of one namespace id, in whatever order their
\* store calls interleave, an invocation that ended with Success is one
\* whose own create transaction made all six paths; no other invocation of
\* that id ends with Success, every other one that ended ended in failure,
\* and none of them changed any of the six paths.
C14_OneWinnerPerId ==
    \A p \in Procs :
        result[p] = "Success" =>
            /\ committed[p]
            /\ Skeleton(ns[p]) \subseteq touched[p]
            /\ \A q \in Procs \ {p} :
                  ns[q] = ns[p] =>
                      /\ result[q] # "Success"
                      /\ pc[q] = "done" => result[q] \in Failures
                      /\ touched[q] \cap Skeleton(ns[q]) = {}

\* C14 witness: three invocations of one id have ended, one with Success, one
\* refused at the create transaction, one at the check transaction.
C14_Witness ==
    \E p, q, r \in Procs :
        /\ ns[p] = ns[q] /\ ns[q] = ns[r]
        /\ result[p] = "Success"
        /\ result[q] = "CreationRace"
        /\ result[r] = "NamespaceCollision"

\* C15: a process that has ended and whose client had been started has
\* stopped its client, whether bootstrap returned Success, returned a
\* Failure, or one of its store calls raised.
C15_ClientStoppedOnEveryOutcome ==
    \A p \in Procs :
        (Exited(p) /\ client[p] # "new") => client[p] = "stopped"

\* Every node of the batch n lies directly under /helios or under a node
\* earlier in n.
ParentsFirst(n) ==
    \A i \in 1..Len(n) :
        Parent(n[i]) = Root \/ \E j \in 1..(i - 1) : n[j] = Parent(n[i])

\* C16: the batch of the check transaction and the batch of the create
\* transaction of an invocation are the same sequence of the six paths of
\* its id, each path after its parent or directly under /helios; the creates
\* of such a batch, applied in order to a store that holds /helios alone,
\* all succeed and make the six paths; so a create transaction fails only
\* when another invocation of the same id has made the paths.
C16_BatchesAlikeAndParentsFirst ==
    \A p \in Procs :
        /\ Len(batch[p]) <= 2
        /\ Len(batch[p]) = 2 <=> Called(p, "create_txn")
        /\ Len(batch[p]) = 2 => batch[p][1] = batch[p][2]
        /\ \A k \in 1..Len(batch[p]) :
              LET n == batch[p][k]
                  r == CommitCreates(Tree({Root}), n, 0)
              IN  /\ Len(n) = 6
                  /\ Range(n) = Skeleton(ns[p])
                  /\ ParentsFirst(n)
                  /\ \A i \in 1..Len(n) : r.results[i] = Res("Created", n[i])
                  /\ DOMAIN r.tree = {Root} \cup Skeleton(ns[p])
        /\ result[p] = "CreationRace"
              => \E q \in Procs \ {p} : ns[q] = ns[p] /\ committed[q]

\* C16 witness: an invocation has submitted both batches and its create
\* transaction succeeded on a store that held /helios and none of its paths.
C16_Witness ==
    \E p \in Procs :
        /\ Len(batch[p]) = 2
        /\ Root \in DOMAIN pre[p]
        /\ Skeleton(ns[p]) \cap DOMAIN pre[p] = {}
        /\ result[p] = "Success"
====
